---------------------------- MODULE Spec2Model ----------------------------
(***************************************************************************)
(* The polyline drawing tool of plugin-examples (PolylineDrawingTool, its  *)
(* PolylinePaneView and PolylineRenderer, and the two chart callbacks it   *)
(* registers), as a state machine.  One action per public method or host callback.  Diagnostic    *)
(* output (console.log, the logging-only DOM click listener of activate)   *)
(* and the toolbar DOM glue change no field of the tool and are left out.  *)
(***************************************************************************)
EXTENDS Integers, Sequences, FiniteSets, TLC

(***************************************************************************)
(* Bounds of the model.                                                    *)
(***************************************************************************)
\* longest committed sequence explored
MaxPoints == 2

(***************************************************************************)
(* Values.  null / undefined of the source are per-type sentinels.         *)
(***************************************************************************)
\* null or undefined where the source has a number (Time, price, coordinate)
Null == -1
\* null where the source has an object reference (chart, series, callbacks)
NullRef == "null"
\* param.point === undefined
NoPoint == [x |-> Null, y |-> Null]
\* _tempPoint === null
NoLogicalPoint == [time |-> Null, price |-> Null]
\* _tempViewPoint === null
NoViewPoint == [x |-> Null, y |-> Null]

\* the host charts a caller can pass to activate, each with its one series
Charts == {"c1", "c2"}
SeriesSet == {"s1", "s2"}
SeriesOf(c) == IF c = "c1" THEN "s1" ELSE "s2"
\* the repaint-request callback the host passes to attached
Callbacks == {"r1"}
\* identities of the closures activate creates
HandlerIds == {"h1", "h2"}

\* Time values a notification can carry (UTCTimestamp numbers, 0 included)
Times == {0, 100, 200}
\* pixel rows a pointer can be on
Ys == {10}
\* MouseEventParams: optional point, optional time
Params == [point : {NoPoint} \cup [x : {5}, y : Ys], time : {Null} \cup Times]
NoParam == [point |-> NoPoint, time |-> Null]

\* the state of the host's scales: whether the price scale can convert, and
\* the first time the time scale can place
Viewports ==
    {[ready |-> TRUE, from |-> 0], [ready |-> TRUE, from |-> 200],
     [ready |-> FALSE, from |-> 0]}

\* PolylineOptions (the fields the model follows)
defaultOptions == [color |-> "#2962FF", lineStyle |-> "solid"]
\* no renderer obtained yet; otherwise the data a PolylineRenderer was built with
NoRenderer ==
    [made |-> FALSE, points |-> <<>>, tempPoint |-> NoViewPoint,
     options |-> defaultOptions]
\* a field a Partial<PolylineOptions> does not name
Absent == "absent"
Partials == [color : {Absent, "red", "#2962FF"}, lineStyle : {Absent, "dashed"}]
\* the empty partial record
NoPartial == [color |-> Absent, lineStyle |-> Absent]

VARIABLES
    active,         \* _active
    chart,          \* _chart
    series,         \* _series
    points,         \* _points
    tempPoint,      \* _tempPoint
    clickHandler,   \* _clickHandler
    moveHandler,    \* _moveHandler
    requestUpdate,  \* _requestUpdate
    options,        \* _options
    viewPoints,     \* PolylinePaneView._viewPoints
    tempViewPoint,  \* PolylinePaneView._tempViewPoint
    clickSubs,      \* host: the click subscribers of each chart
    moveSubs,       \* host: the crosshair-move subscribers of each chart
    viewport,       \* host: the state of the scales
    handlersMade,   \* whether activate has ever created the two closures
    renderer,       \* host: PolylineRenderer._data of the renderer it last obtained
    last            \* history: the last operation, its input and its host calls

toolVars == <<active, chart, series, points, tempPoint, clickHandler,
              moveHandler, requestUpdate, options, viewPoints, tempViewPoint>>
hostVars == <<clickSubs, moveSubs, viewport>>
vars == <<toolVars, hostVars, handlersMade, renderer, last>>

(***************************************************************************)
(* Host chart and series (lightweight-charts API used by the tool).        *)
(***************************************************************************)
\* ISeriesApi.coordinateToPrice: pixel row to price, null if the scale is empty
coordinateToPrice(vp, y) == IF vp.ready THEN 50 - y ELSE Null

\* ISeriesApi.priceToCoordinate: price to pixel row, null if the scale is empty
priceToCoordinate(vp, price) == IF vp.ready THEN 50 - price ELSE Null

\* ITimeScaleApi.timeToCoordinate: null for a time the scale cannot place
timeToCoordinate(vp, t) == IF t >= vp.from THEN (t - vp.from) \div 10 ELSE Null

\* a host call made by an operation: <<function, receiver, argument>>
Call(fn, target, arg) == <<fn, target, arg>>

(***************************************************************************)
(* JavaScript truthiness of an optional number: !v is true for undefined   *)
(* and for 0.                                                              *)
(***************************************************************************)
Truthy(v) == v # Null /\ v # 0

(***************************************************************************)
(* PolylineDrawingTool._updateView: the host calls it makes.               *)
(***************************************************************************)
updateView(cb) == IF cb # NullRef THEN <<Call("requestUpdate", cb, "")>> ELSE <<>>

(***************************************************************************)
(* PolylinePaneView.update                                                 *)
(***************************************************************************)
\* the view point of one logical point (both coordinates)
project(vp, p) ==
    [x |-> timeToCoordinate(vp, p.time), y |-> priceToCoordinate(vp, p.price)]

\* mutant: the forEach of update keeps a null entry for a point it cannot place
RECURSIVE projectPointsNullInPlace(_, _)
projectPointsNullInPlace(vp, pts) ==
    IF pts = <<>> THEN <<>>
    ELSE LET v == project(vp, Head(pts))
             rest == projectPointsNullInPlace(vp, Tail(pts))
         IN  IF v.x # Null /\ v.y # Null THEN <<v>> \o rest
             ELSE <<NoViewPoint>> \o rest

\* the forEach of update: a point is pushed only if both coordinates are non-null
RECURSIVE projectPoints(_, _)
projectPoints(vp, pts) ==
    IF pts = <<>> THEN <<>>
    ELSE LET v == project(vp, Head(pts))
             rest == projectPoints(vp, Tail(pts))
         IN  IF v.x # Null /\ v.y # Null THEN <<v>> \o rest ELSE rest

\* the temp point branch of update
projectTemp(vp, tp) ==
    IF tp # NoLogicalPoint
    THEN LET v == project(vp, tp)
         IN  IF v.x # Null /\ v.y # Null THEN v ELSE NoViewPoint
    ELSE NoViewPoint

\* mutant: update pushes onto the array it already has instead of a fresh one
updateAppendsToCache(ch, se, pts, tp, vp, oldView, oldTemp) ==
    IF se = NullRef \/ ch = NullRef
    THEN <<oldView, oldTemp>>
    ELSE <<oldView \o projectPoints(vp, pts), projectTemp(vp, tp)>>

\* update(): the new cache <<_viewPoints, _tempViewPoint>>, given the handles
update(ch, se, pts, tp, vp, oldView, oldTemp) ==
    IF se = NullRef \/ ch = NullRef
    THEN <<oldView, oldTemp>>
    ELSE <<projectPoints(vp, pts), projectTemp(vp, tp)>>

\* whether update() gets past its check of the handles
updateRuns(ch, se) == se # NullRef /\ ch # NullRef

\* mutant: update empties and refills the array a renderer may still hold
heldAfterInPlaceUpdate(r, ran, newView) ==
    IF r.made /\ ran THEN [r EXCEPT !.points = newView] ELSE r

\* the data of a renderer obtained earlier, after a later update(): update
\* assigns a fresh array and a fresh temp view point and writes to neither of
\* the objects the renderer holds
heldAfterUpdate(r, ran, newView) == r

(***************************************************************************)
(* PolylinePaneView.renderer and PolylineRenderer.draw.  The canvas calls  *)
(* of draw that build, stroke or fill a path, in order, as                 *)
(* <<call, x, y>> in bitmap coordinates.  ctx.save/restore and the style   *)
(* assignments (fillStyle, strokeStyle, lineWidth, setLineDash) draw       *)
(* nothing and are left out.                                               *)
(***************************************************************************)
\* the pixel ratios the canvas target hands to the drawing callback
horizontalPixelRatio == 2
verticalPixelRatio == 3

\* renderer(): the data the new PolylineRenderer is built with
rendererData(view, temp, opts) ==
    [made |-> TRUE, points |-> view, tempPoint |-> temp, options |-> opts]

Op(name, x, y) == <<name, x, y>>
\* Math.round(x * horizontalPixelRatio), Math.round(y * verticalPixelRatio)
OpAt(name, v) == Op(name, v.x * horizontalPixelRatio, v.y * verticalPixelRatio)

\* point && point.x !== null && point.y !== null
drawable(v) == v # NoViewPoint /\ v.x # Null /\ v.y # Null

\* the lineTo loop of draw over the points after the first
RECURSIVE lineTos(_)
lineTos(pts) ==
    IF pts = <<>> THEN <<>>
    ELSE (IF drawable(Head(pts)) THEN <<OpAt("lineTo", Head(pts))>> ELSE <<>>)
         \o lineTos(Tail(pts))

\* the marker loop of draw
RECURSIVE markers(_)
markers(pts) ==
    IF pts = <<>> THEN <<>>
    ELSE (IF drawable(Head(pts))
          THEN <<Op("beginPath", Null, Null), OpAt("arc", Head(pts)),
                 Op("fill", Null, Null)>>
          ELSE <<>>)
         \o markers(Tail(pts))

\* mutant: the marker loop also marks the temp point
drawMarksTemp(d) ==
    IF Len(d.points) = 0 /\ drawable(d.tempPoint)
    THEN <<Op("beginPath", Null, Null), OpAt("arc", d.tempPoint),
           Op("fill", Null, Null)>>
    ELSE IF Len(d.points) = 0 THEN <<>>
    ELSE <<Op("beginPath", Null, Null)>>
         \o (IF drawable(d.points[1])
             THEN <<OpAt("moveTo", d.points[1])>> \o lineTos(Tail(d.points))
                  \o (IF drawable(d.tempPoint)
                      THEN <<OpAt("lineTo", d.tempPoint)>> ELSE <<>>)
                  \o <<Op("stroke", Null, Null)>>
                  \o markers(d.points \o <<d.tempPoint>>)
             ELSE <<>>)

\* draw(target) of a renderer built with data d
draw(d) ==
    IF Len(d.points) = 0 /\ drawable(d.tempPoint)
    THEN <<Op("beginPath", Null, Null), OpAt("arc", d.tempPoint),
           Op("fill", Null, Null)>>
    ELSE IF Len(d.points) = 0
    THEN <<>>
    ELSE <<Op("beginPath", Null, Null)>>
         \o (IF drawable(d.points[1])
             THEN <<OpAt("moveTo", d.points[1])>>
                  \o lineTos(Tail(d.points))
                  \o (IF drawable(d.tempPoint)
                      THEN <<OpAt("lineTo", d.tempPoint)>> ELSE <<>>)
                  \o <<Op("stroke", Null, Null)>>
                  \o markers(d.points)
             ELSE <<>>)

(***************************************************************************)
(* Initial state: the fields after the constructor; no subscriber yet.     *)
(***************************************************************************)
Init ==
    /\ active = FALSE
    /\ chart = NullRef
    /\ series = NullRef
    /\ points = <<>>
    /\ tempPoint = NoLogicalPoint
    /\ clickHandler = NullRef
    /\ moveHandler = NullRef
    /\ requestUpdate = NullRef
    /\ options = defaultOptions
    /\ viewPoints = <<>>
    /\ tempViewPoint = NoViewPoint
    /\ clickSubs = [c \in Charts |-> {}]
    /\ moveSubs = [c \in Charts |-> {}]
    /\ viewport \in Viewports
    /\ handlersMade = FALSE
    /\ renderer = NoRenderer
    /\ last = [op |-> "new", param |-> NoParam, arg |-> NullRef,
               partial |-> NoPartial, wasActive |-> FALSE, hadTemp |-> FALSE,
               calls |-> <<>>]

\* history: the operation just run, its input, whether the tool was active and
\* had a temp point when it started, and the host calls it made, in order
DoneFull(op, p, a, partial, calls) ==
    last' = [op |-> op, param |-> p, arg |-> a, partial |-> partial,
             wasActive |-> active, hadTemp |-> (tempPoint # NoLogicalPoint),
             calls |-> calls]
DoneWith(op, p, a, calls) == DoneFull(op, p, a, NoPartial, calls)
Done(op, p, calls) == DoneWith(op, p, NullRef, calls)


(***************************************************************************)
(* Host: IChartApi.subscribeClick / subscribeCrosshairMove and their       *)
(* unsubscribe counterparts, on the subscriber table of one event.         *)
(***************************************************************************)
subscribe(subs, c, h) == [subs EXCEPT ![c] = @ \cup {h}]
unsubscribe(subs, c, h) == [subs EXCEPT ![c] = @ \ {h}]

\* closure identities no chart and no field still holds
FreeIds ==
    HandlerIds \ ((UNION {clickSubs[c] : c \in Charts})
                  \cup (UNION {moveSubs[c] : c \in Charts})
                  \cup {clickHandler, moveHandler})

(***************************************************************************)
(* activate(chart, series)                                                 *)
(***************************************************************************)
\* the subscriptions activate makes on the chart it was given
activateSubscribes(c, h) ==
    /\ clickSubs' = subscribe(clickSubs, c, h)
    /\ moveSubs' = subscribe(moveSubs, c, h)

\* mutant: activate without its already-active check
activateNeverReturns == FALSE

\* the early return of activate
activateReturns == active

Activate(c, s) ==
    /\ activateReturns \/ FreeIds # {}
    /\ IF activateReturns
       THEN /\ UNCHANGED <<toolVars, hostVars, handlersMade, renderer>>
            /\ DoneWith("activate", NoParam, c, <<>>)
       ELSE LET h == CHOOSE id \in FreeIds : TRUE
            IN  /\ chart' = c
                /\ series' = s
                /\ active' = TRUE
                /\ clickHandler' = h
                /\ moveHandler' = h
                /\ activateSubscribes(c, h)
                /\ handlersMade' = TRUE
                /\ UNCHANGED <<points, tempPoint, requestUpdate, options,
                               viewPoints, tempViewPoint, viewport, renderer>>
                /\ DoneWith("activate", NoParam, c,
                            <<Call("subscribeClick", c, h),
                              Call("subscribeCrosshairMove", c, h)>>)

(***************************************************************************)
(* deactivate()                                                            *)
(***************************************************************************)
\* mutant: deactivate also gives up when no repaint callback is held
deactivateReturnsUnattached == ~active \/ chart = NullRef \/ requestUpdate = NullRef

\* mutant: deactivate without its already-inactive check
deactivateNeverReturns == FALSE

\* the early return of deactivate
deactivateReturns == ~active \/ chart = NullRef

\* the host calls of a deactivate that takes effect
deactivateCalls ==
    (IF clickHandler # NullRef
     THEN <<Call("unsubscribeClick", chart, clickHandler)>> ELSE <<>>)
    \o (IF moveHandler # NullRef
        THEN <<Call("unsubscribeCrosshairMove", chart, moveHandler)>> ELSE <<>>)
    \o updateView(requestUpdate)

\* mutant: deactivate forgets to unsubscribe the move handler from the chart
deactivateFieldsKeepMoveSub ==
    /\ clickSubs' = IF clickHandler # NullRef
                    THEN unsubscribe(clickSubs, chart, clickHandler) ELSE clickSubs
    /\ clickHandler' = NullRef
    /\ moveSubs' = moveSubs
    /\ moveHandler' = NullRef
    /\ active' = FALSE
    /\ chart' = NullRef
    /\ series' = NullRef
    /\ tempPoint' = NoLogicalPoint

\* mutant: deactivate forgets to clear the temp point
deactivateFieldsKeepTemp ==
    /\ clickSubs' = IF clickHandler # NullRef
                    THEN unsubscribe(clickSubs, chart, clickHandler) ELSE clickSubs
    /\ clickHandler' = NullRef
    /\ moveSubs' = IF moveHandler # NullRef
                   THEN unsubscribe(moveSubs, chart, moveHandler) ELSE moveSubs
    /\ moveHandler' = NullRef
    /\ active' = FALSE
    /\ chart' = NullRef
    /\ series' = NullRef
    /\ tempPoint' = tempPoint

\* mutant: deactivate keeps the series handle
deactivateFieldsKeepSeries ==
    /\ clickSubs' = IF clickHandler # NullRef
                    THEN unsubscribe(clickSubs, chart, clickHandler) ELSE clickSubs
    /\ clickHandler' = NullRef
    /\ moveSubs' = IF moveHandler # NullRef
                   THEN unsubscribe(moveSubs, chart, moveHandler) ELSE moveSubs
    /\ moveHandler' = NullRef
    /\ active' = FALSE
    /\ chart' = NullRef
    /\ series' = series
    /\ tempPoint' = NoLogicalPoint

\* the fields a deactivate that takes effect assigns
deactivateFields ==
    /\ clickSubs' = IF clickHandler # NullRef
                    THEN unsubscribe(clickSubs, chart, clickHandler) ELSE clickSubs
    /\ clickHandler' = NullRef
    /\ moveSubs' = IF moveHandler # NullRef
                   THEN unsubscribe(moveSubs, chart, moveHandler) ELSE moveSubs
    /\ moveHandler' = NullRef
    /\ active' = FALSE
    /\ chart' = NullRef
    /\ series' = NullRef
    /\ tempPoint' = NoLogicalPoint

\* mutant: a deactivate that takes effect also drops the committed points
deactivateDropsPoints ==
    /\ IF deactivateReturns
       THEN UNCHANGED <<active, chart, series, tempPoint, clickHandler,
                        moveHandler, clickSubs, moveSubs>>
       ELSE deactivateFields
    /\ points' = IF deactivateReturns THEN points ELSE <<>>
    /\ UNCHANGED <<options, viewPoints, tempViewPoint, viewport,
                   handlersMade, renderer>>

\* deactivate() on everything but _requestUpdate
deactivate ==
    /\ IF deactivateReturns
       THEN UNCHANGED <<active, chart, series, tempPoint, clickHandler,
                        moveHandler, clickSubs, moveSubs>>
       ELSE deactivateFields
    /\ UNCHANGED <<points, options, viewPoints, tempViewPoint, viewport,
                   handlersMade, renderer>>

Deactivate ==
    /\ deactivate
    /\ UNCHANGED requestUpdate
    /\ Done("deactivate", NoParam, IF deactivateReturns THEN <<>> ELSE deactivateCalls)

(***************************************************************************)
(* attached({requestUpdate}) and detached()                                *)
(***************************************************************************)
Attached(r) ==
    /\ requestUpdate' = r
    /\ UNCHANGED <<active, chart, series, points, tempPoint, clickHandler,
                   moveHandler, options, viewPoints, tempViewPoint>>
    /\ UNCHANGED <<hostVars, handlersMade, renderer>>
    /\ Done("attached", NoParam, <<>>)

\* mutant: detached forgets to release the repaint callback
detachedKeepsCallback == requestUpdate

\* what detached leaves in _requestUpdate after its deactivate()
detachedCallback == NullRef

Detached ==
    /\ deactivate
    /\ requestUpdate' = detachedCallback
    /\ Done("detached", NoParam, IF deactivateReturns THEN <<>> ELSE deactivateCalls)

(***************************************************************************)
(* The click handler created by activate, and _addPoint.                   *)
(***************************************************************************)
\* mutant: the click handler without its check of param.point
clickIgnoredNoPointCheck(p) ==
    \/ ~active
    \/ ~Truthy(p.time)
    \/ series = NullRef
    \/ coordinateToPrice(viewport, p.point.y) = Null

\* the early returns of the click handler
clickIgnored(p) ==
    \/ ~active
    \/ p.point = NoPoint
    \/ ~Truthy(p.time)
    \/ series = NullRef
    \/ coordinateToPrice(viewport, p.point.y) = Null

\* the early return of _addPoint
addPointRejects(pt) == pt.time = Null \/ pt.price = Null

\* the host calls of an _addPoint that appends
addPointCalls == <<Call("update", "paneView", "")>> \o updateView(requestUpdate)

\* mutant: _addPoint without the forced update of the pane views
addPointNoUpdate(pt) ==
    IF addPointRejects(pt)
    THEN UNCHANGED <<points, viewPoints, tempViewPoint>>
    ELSE /\ points' = Append(points, pt)
         /\ UNCHANGED <<viewPoints, tempViewPoint>>

\* _addPoint(point)
addPoint(pt) ==
    IF addPointRejects(pt)
    THEN UNCHANGED <<points, viewPoints, tempViewPoint>>
    ELSE LET cache == update(chart, series, Append(points, pt), tempPoint,
                             viewport, viewPoints, tempViewPoint)
         IN  /\ points' = Append(points, pt)
             /\ viewPoints' = cache[1]
             /\ tempViewPoint' = cache[2]

\* the renderer data the host may hold, after the update() of _addPoint
heldAfterAddPoint(pt) ==
    IF addPointRejects(pt) THEN renderer
    ELSE heldAfterUpdate(renderer, updateRuns(chart, series),
                         update(chart, series, Append(points, pt), tempPoint,
                                viewport, viewPoints, tempViewPoint)[1])

\* the point a click that passes the checks commits
clickedPoint(p) ==
    [time |-> p.time, price |-> coordinateToPrice(viewport, p.point.y)]

ClickNotify(p) ==
    /\ handlersMade
    /\ ~clickIgnored(p) => Len(points) < MaxPoints
    /\ IF clickIgnored(p)
       THEN /\ UNCHANGED <<points, viewPoints, tempViewPoint, renderer>>
            /\ Done("click", p, <<>>)
       ELSE /\ addPoint(clickedPoint(p))
            /\ renderer' = heldAfterAddPoint(clickedPoint(p))
            /\ Done("click", p,
                    IF addPointRejects(clickedPoint(p)) THEN <<>> ELSE addPointCalls)
    /\ UNCHANGED <<active, chart, series, tempPoint, clickHandler, moveHandler,
                   requestUpdate, options, hostVars, handlersMade>>

(***************************************************************************)
(* The crosshair-move handler created by activate.                         *)
(***************************************************************************)
\* the two branches of the move handler that clear the temp point
moveClears(p) ==
    \/ ~active
    \/ p.point = NoPoint
    \/ ~Truthy(p.time)
    \/ series = NullRef
    \/ coordinateToPrice(viewport, p.point.y) = Null

\* the temp point the move handler leaves
movedTempPoint(p) ==
    IF moveClears(p)
    THEN NoLogicalPoint
    ELSE [time |-> p.time, price |-> coordinateToPrice(viewport, p.point.y)]

\* mutant: the move handler requests a repaint only when it sets a temp point
moveCallsOnlyWhenSet(p) == IF moveClears(p) THEN <<>> ELSE updateView(requestUpdate)

\* the host calls of the move handler
moveCalls(p) == updateView(requestUpdate)

MoveNotify(p) ==
    /\ handlersMade
    /\ tempPoint' = movedTempPoint(p)
    /\ Done("move", p, moveCalls(p))
    /\ UNCHANGED <<active, chart, series, points, clickHandler, moveHandler,
                   requestUpdate, options, viewPoints, tempViewPoint>>
    /\ UNCHANGED <<hostVars, handlersMade, renderer>>

(***************************************************************************)
(* clearPoints(), applyOptions(partial), paneViews()                       *)
(***************************************************************************)
\* mutant: clearPoints forgets the temp point
ClearPointsKeepsTemp ==
    /\ points' = <<>>
    /\ tempPoint' = tempPoint
    /\ Done("clearPoints", NoParam, updateView(requestUpdate))
    /\ UNCHANGED <<active, chart, series, clickHandler, moveHandler,
                   requestUpdate, options, viewPoints, tempViewPoint>>
    /\ UNCHANGED <<hostVars, handlersMade, renderer>>

ClearPoints ==
    /\ points' = <<>>
    /\ tempPoint' = NoLogicalPoint
    /\ Done("clearPoints", NoParam, updateView(requestUpdate))
    /\ UNCHANGED <<active, chart, series, clickHandler, moveHandler,
                   requestUpdate, options, viewPoints, tempViewPoint>>
    /\ UNCHANGED <<hostVars, handlersMade, renderer>>

\* mutant: applyOptions merges over the defaults, not over the current options
mergeOverDefaults(old, partial) ==
    [f \in DOMAIN old |->
        IF partial[f] # Absent THEN partial[f] ELSE defaultOptions[f]]

\* { ...this._options, ...options }
mergeOptions(old, partial) ==
    [f \in DOMAIN old |-> IF partial[f] # Absent THEN partial[f] ELSE old[f]]

ApplyOptions(partial) ==
    /\ options' = mergeOptions(options, partial)
    /\ DoneFull("applyOptions", NoParam, NullRef, partial,
                updateView(requestUpdate))
    /\ UNCHANGED <<active, chart, series, points, tempPoint, clickHandler,
                   moveHandler, requestUpdate, viewPoints, tempViewPoint>>
    /\ UNCHANGED <<hostVars, handlersMade, renderer>>

PaneViews ==
    /\ LET cache == update(chart, series, points, tempPoint, viewport,
                           viewPoints, tempViewPoint)
       IN  /\ viewPoints' = cache[1]
           /\ tempViewPoint' = cache[2]
           /\ renderer' = heldAfterUpdate(renderer, updateRuns(chart, series),
                                          cache[1])
    /\ Done("paneViews", NoParam, <<Call("update", "paneView", "")>>)
    /\ UNCHANGED <<active, chart, series, points, tempPoint, clickHandler,
                   moveHandler, requestUpdate, options>>
    /\ UNCHANGED <<hostVars, handlersMade>>

(***************************************************************************)
(* Host: the paint takes the view's renderer().  The host then calls its   *)
(* draw(), which writes no field of the tool; what it draws is draw(data). *)
(***************************************************************************)
GetRenderer ==
    /\ renderer' = rendererData(viewPoints, tempViewPoint, options)
    /\ Done("renderer", NoParam, <<>>)
    /\ UNCHANGED <<toolVars, hostVars, handlersMade>>

(***************************************************************************)
(* Host: the user pans or zooms, or the series gains or loses its data.    *)
(***************************************************************************)
SetViewport(vp) ==
    /\ vp # viewport
    /\ viewport' = vp
    /\ Done("viewport", NoParam, <<>>)
    /\ UNCHANGED <<toolVars, clickSubs, moveSubs, handlersMade, renderer>>

Next ==
    \/ \E c \in Charts : Activate(c, SeriesOf(c))
    \/ Deactivate
    \/ \E r \in Callbacks : Attached(r)
    \/ Detached
    \/ \E p \in Params : ClickNotify(p)
    \/ \E p \in Params : MoveNotify(p)
    \/ ClearPoints
    \/ \E partial \in Partials : ApplyOptions(partial)
    \/ PaneViews
    \/ \E vp \in Viewports : SetViewport(vp)

Spec == Init /\ [][Next]_vars

(***************************************************************************)
(* PolylineRenderer.draw on its own: a renderer built with any payload of  *)
(* the ViewPoint type, whose x and y may each be null, is drawn.           *)
(***************************************************************************)
\* longest payload explored
MaxEntries == 3
\* the entries a payload can hold
ViewEntries == [x : {Null, 1, 2}, y : {Null, 1}]
\* the payloads explored
Payloads ==
    {rendererData(view, temp, defaultOptions) :
        view \in UNION {[1..n -> ViewEntries] : n \in 0..MaxEntries},
        temp \in ViewEntries}

\* draw(target) of the renderer held
Draw ==
    /\ renderer.made
    /\ Done("draw", NoParam, draw(renderer))
    /\ UNCHANGED <<toolVars, hostVars, handlersMade, renderer>>

InitDraw ==
    /\ active = FALSE
    /\ chart = NullRef
    /\ series = NullRef
    /\ points = <<>>
    /\ tempPoint = NoLogicalPoint
    /\ clickHandler = NullRef
    /\ moveHandler = NullRef
    /\ requestUpdate = NullRef
    /\ options = defaultOptions
    /\ viewPoints = <<>>
    /\ tempViewPoint = NoViewPoint
    /\ clickSubs = [c \in Charts |-> {}]
    /\ moveSubs = [c \in Charts |-> {}]
    /\ viewport \in Viewports
    /\ handlersMade = FALSE
    /\ renderer \in Payloads
    /\ last = [op |-> "new", param |-> NoParam, arg |-> NullRef,
               partial |-> NoPartial, wasActive |-> FALSE, hadTemp |-> FALSE,
               calls |-> <<>>]

NextDraw == Draw

SpecDraw == InitDraw /\ [][NextDraw]_vars

(***************************************************************************)
(* The tool under a host that also paints.                                 *)
(***************************************************************************)
\* the notifications followed there: a click on the plot at either time, a
\* move on the plot or off it
PaintClicks == {p \in Params : p.point # NoPoint /\ p.time \in {100, 200}}
PaintMoves == {p \in Params : (p.point # NoPoint /\ p.time = 100) \/ p = NoParam}
\* the one style change followed there
PaintPartials == {[color |-> "red", lineStyle |-> Absent]}
\* the viewports followed there: both with a price scale
PaintViewports == {vp \in Viewports : vp.ready}

NextPaint ==
    \/ Activate("c1", SeriesOf("c1"))
    \/ Deactivate
    \/ \E p \in PaintClicks : ClickNotify(p)
    \/ \E p \in PaintMoves : MoveNotify(p)
    \/ ClearPoints
    \/ \E partial \in PaintPartials : ApplyOptions(partial)
    \/ PaneViews
    \/ \E vp \in PaintViewports : SetViewport(vp)
    \/ GetRenderer

InitPaint == Init /\ viewport \in PaintViewports

SpecPaint == InitPaint /\ [][NextPaint]_vars

TypeOK ==
    /\ active \in BOOLEAN
    /\ chart \in Charts \cup {NullRef}
    /\ series \in SeriesSet \cup {NullRef}
    /\ Len(points) <= MaxPoints
    /\ requestUpdate \in Callbacks \cup {NullRef}
    /\ viewport \in Viewports


(***************************************************************************)
(* Vocabulary of the properties.                                           *)
(***************************************************************************)
\* getPoints(): a copy of the committed sequence
getPoints == points

\* how many repaint requests a sequence of host calls holds
Repaints(calls) ==
    Cardinality({i \in DOMAIN calls : calls[i][1] = "requestUpdate"})

\* how many subscribers of this tool a subscriber table holds, over all charts
SubCount(subs) ==
    Cardinality({ch \in Charts \X HandlerIds : ch[2] \in subs[ch[1]]})

NoSubs == [c \in Charts |-> {}]

\* a notification that has a pixel point, a time value and a pixel row the
\* series converts to a price
Convertible(p) ==
    /\ p.point # NoPoint
    /\ p.time # Null
    /\ coordinateToPrice(viewport, p.point.y) # Null

\* the (time, price) pair of a convertible notification
PairOf(p) == [time |-> p.time, price |-> coordinateToPrice(viewport, p.point.y)]

(***************************************************************************)
(* C1: every click delivered while the tool is Active that carries a pixel *)
(* point, a time value and a convertible y-coordinate appends its (time,   *)
(* price) pair at the end of what getPoints() returns, so that getPoints() *)
(* is the sequence of those clicks in click order, none dropped.           *)
(***************************************************************************)
C1_ClicksCommittedInOrder ==
    [][(last'.op = "click" /\ active /\ Convertible(last'.param))
         => getPoints' = Append(getPoints, PairOf(last'.param))]_vars

(***************************************************************************)
(* C2: a click processed in Active state that lacks a pixel point, lacks a *)
(* time coordinate or whose y-coordinate converts to a null price changes  *)
(* no field of the tool (committed sequence, temp point, activation state, *)
(* handles, projection cache), no subscription, and makes no host call (no *)
(* repaint request).                                                       *)
(***************************************************************************)
LacksInput(p) ==
    \/ p.point = NoPoint
    \/ p.time = Null
    \/ coordinateToPrice(viewport, p.point.y) = Null

C2_IgnoredClickChangesNothing ==
    [][(last'.op = "click" /\ active /\ LacksInput(last'.param))
         => (UNCHANGED <<toolVars, hostVars>> /\ last'.calls = <<>>)]_vars

\* an Active tool has just processed a click without a pixel point but with a
\* time value, while it holds a repaint callback and a committed point
C2_Witness ==
    /\ last.op = "click"
    /\ last.wasActive
    /\ last.param.point = NoPoint
    /\ last.param.time = 100
    /\ viewport.ready
    /\ requestUpdate # NullRef
    /\ points # <<>>

(***************************************************************************)
(* C3: the activation state is false at construction, true right after any *)
(* activate call, and false right after any deactivate or detached call.   *)
(***************************************************************************)
C3_ActivationLifecycle ==
    /\ last.op = "new" => ~active
    /\ last.op = "activate" => active
    /\ last.op \in {"deactivate", "detached"} => ~active

\* detached has just run on a tool that was Active and not attached
C3_Witness ==
    /\ last.op = "detached"
    /\ last.wasActive
    /\ last.calls # <<>>
    /\ Repaints(last.calls) = 0

(***************************************************************************)
(* C4: activate while Active changes nothing (the stored handles are kept  *)
(* even if another chart is passed, nothing more is subscribed), and       *)
(* deactivate while Inactive changes nothing (nothing unsubscribed, no     *)
(* state change, no repaint request).                                      *)
(***************************************************************************)
C4_RepeatedCallsAreNoOps ==
    [][/\ (last'.op = "activate" /\ active)
            => (UNCHANGED <<toolVars, hostVars>> /\ last'.calls = <<>>)
       /\ (last'.op = "deactivate" /\ ~active)
            => (UNCHANGED <<toolVars, hostVars>> /\ last'.calls = <<>>)]_vars

\* activate has just been called on an Active tool with a chart other than
\* the one it holds
C4_Witness ==
    /\ last.op = "activate"
    /\ last.wasActive
    /\ last.arg # chart
    /\ requestUpdate # NullRef

(***************************************************************************)
(* C5: in every state the tool has one click subscriber and one move       *)
(* subscriber registered (on the chart it holds) when Active and none when *)
(* Inactive; an activate that takes effect subscribes exactly one of each  *)
(* on the chart passed to it, and the next deactivate or detached          *)
(* unsubscribes exactly those two from that chart, once each.              *)
(***************************************************************************)
SubsMatchActivation ==
    /\ active => /\ SubCount(clickSubs) = 1
                 /\ SubCount(moveSubs) = 1
                 /\ clickSubs[chart] = {clickHandler}
                 /\ moveSubs[chart] = {moveHandler}
    /\ ~active => /\ SubCount(clickSubs) = 0
                  /\ SubCount(moveSubs) = 0

SubsStep ==
    /\ (last'.op = "activate" /\ ~active)
         => /\ chart' = last'.arg
            /\ last'.calls = <<Call("subscribeClick", chart', clickHandler'),
                               Call("subscribeCrosshairMove", chart', moveHandler')>>
            /\ clickSubs' = subscribe(clickSubs, chart', clickHandler')
            /\ moveSubs' = subscribe(moveSubs, chart', moveHandler')
    /\ (last'.op \in {"deactivate", "detached"} /\ active)
         => /\ SubSeq(last'.calls, 1, 2)
                 = <<Call("unsubscribeClick", chart, clickHandler),
                     Call("unsubscribeCrosshairMove", chart, moveHandler)>>
            /\ \A i \in DOMAIN last'.calls :
                   i > 2 => last'.calls[i][1] = "requestUpdate"
            /\ clickSubs' = NoSubs
            /\ moveSubs' = NoSubs
    /\ ~(last'.op \in {"activate", "deactivate", "detached"})
         => UNCHANGED <<clickSubs, moveSubs>>

C6_DeactivateDropsPreview ==
    [][/\ (last'.op = "deactivate" /\ active /\ tempPoint # NoLogicalPoint)
            => (tempPoint' = NoLogicalPoint /\ points' = points /\ ~active')
       /\ (last'.op \in {"click", "move"} /\ ~active)
            => UNCHANGED <<tempPoint, points>>]_vars

\* deactivate has just run on an Active tool that had a temp point and a
\* committed point
C6_Witness ==
    /\ last.op = "deactivate"
    /\ last.wasActive
    /\ last.hadTemp
    /\ points # <<>>

(***************************************************************************)
(* C7: detached called while Active (and holding the repaint callback)     *)
(* makes the whole deactivate transition - both subscribers unregistered,  *)
(* temp point null, handles cleared, activation false, one repaint         *)
(* requested through the callback held until then - and then releases the  *)
(* callback; the committed sequence is kept; and while no callback is held *)
(* (after detached, until attached) no operation requests a repaint.       *)
(***************************************************************************)
C7_DetachDeactivatesThenReleases ==
    [][/\ (last'.op = "detached" /\ active)
            => /\ clickSubs' = NoSubs /\ moveSubs' = NoSubs
               /\ clickHandler' = NullRef /\ moveHandler' = NullRef
               /\ tempPoint' = NoLogicalPoint
               /\ chart' = NullRef /\ series' = NullRef
               /\ ~active'
               /\ points' = points
               /\ requestUpdate' = NullRef
               /\ requestUpdate # NullRef
                    => /\ Repaints(last'.calls) = 1
                       /\ last'.calls[Len(last'.calls)]
                            = Call("requestUpdate", requestUpdate, "")
       /\ last'.op = "detached" => requestUpdate' = NullRef
       /\ (requestUpdate = NullRef) => Repaints(last'.calls) = 0]_vars

\* detached has just run on a tool that was Active, had a temp point and a
\* committed point, and requested its repaint
C7_Witness ==
    /\ last.op = "detached"
    /\ last.wasActive
    /\ last.hadTemp
    /\ Repaints(last.calls) = 1
    /\ points # <<>>

(***************************************************************************)
(* C8: detached called while Inactive unregisters nothing, requests no     *)
(* repaint and leaves the committed sequence, the temp point, the          *)
(* activation state and every other field but the released callback as     *)
(* they were; a second detached changes nothing at all.                    *)
(***************************************************************************)
C8_DetachWhileInactive ==
    [][/\ (last'.op = "detached" /\ ~active)
            => /\ UNCHANGED <<active, chart, series, points, tempPoint,
                              clickHandler, moveHandler, options, viewPoints,
                              tempViewPoint, hostVars>>
               /\ last'.calls = <<>>
       /\ (last'.op = "detached" /\ last.op = "detached")
            => UNCHANGED <<toolVars, hostVars>>]_vars

\* detached has just run on an Inactive tool that held committed points
C8_Witness ==
    /\ last.op = "detached"
    /\ ~last.wasActive
    /\ points # <<>>
    /\ handlersMade

(***************************************************************************)
(* C9: a move processed in Active state clears the temp point if it lacks  *)
(* a pixel point, lacks a time coordinate or its y-coordinate converts to  *)
(* a null price, and otherwise sets the temp point to exactly {time of the *)
(* notification, converted price}; the committed sequence is unchanged.    *)
(***************************************************************************)
C9_MoveSetsOrClearsPreview ==
    [][(last'.op = "move" /\ active)
         => /\ tempPoint' = IF LacksInput(last'.param)
                            THEN NoLogicalPoint ELSE PairOf(last'.param)
            /\ points' = points]_vars

(***************************************************************************)
(* C10: every move delivered while the tool is attached and Active makes   *)
(* exactly one repaint request, whether it sets or clears the temp point.  *)
(***************************************************************************)
C10_MoveRepaintsOnce ==
    (last.op = "move" /\ last.wasActive /\ requestUpdate # NullRef)
      => last.calls = <<Call("requestUpdate", requestUpdate, "")>>

\* an attached, Active tool has just processed a move that cleared a temp point
C10_Witness ==
    /\ last.op = "move"
    /\ last.wasActive
    /\ last.hadTemp
    /\ requestUpdate # NullRef
    /\ tempPoint = NoLogicalPoint

(***************************************************************************)
(* C11: clearPoints in any state leaves the committed sequence empty and   *)
(* the temp point null, does not change the activation state, the stored   *)
(* handles or the subscriptions, and requests one repaint when a repaint   *)
(* callback is held (none otherwise).                                      *)
(***************************************************************************)
C11_ClearPointsResets ==
    [][last'.op = "clearPoints"
         => /\ getPoints' = <<>>
            /\ tempPoint' = NoLogicalPoint
            /\ UNCHANGED <<active, chart, series, clickHandler, moveHandler,
                           requestUpdate, clickSubs, moveSubs>>
            /\ last'.calls = IF requestUpdate # NullRef
                             THEN <<Call("requestUpdate", requestUpdate, "")>>
                             ELSE <<>>]_vars

\* clearPoints has just run on an attached, Active tool that had a temp point
\* and a projected committed point
C11_Witness ==
    /\ last.op = "clearPoints"
    /\ last.wasActive
    /\ last.hadTemp
    /\ viewPoints # <<>>
    /\ Repaints(last.calls) = 1

(***************************************************************************)
(* C15: after every projection pass that ran with chart and series present *)
(* the cached view-point sequence is as long as the committed sequence.    *)
(* As stated this fails: update() drops the points it cannot place.        *)
(***************************************************************************)
\* a projection pass has just run to its end
ProjectionPassRan ==
    /\ last.op = "paneViews" \/ (last.op = "click" /\ last.calls # <<>>)
    /\ chart # NullRef
    /\ series # NullRef

C15_CacheLengthEqual == ProjectionPassRan => Len(viewPoints) = Len(points)

\* a committed point the scales can place
Projectable(p) ==
    /\ timeToCoordinate(viewport, p.time) # Null
    /\ priceToCoordinate(viewport, p.price) # Null

ProjectableCount == Cardinality({i \in DOMAIN points : Projectable(points[i])})

(***************************************************************************)
(* C15 (amended): after every such projection pass the cache has one entry *)
(* for each committed point that is projectable under the viewport, so it  *)
(* is never longer than the committed sequence and is as long exactly when *)
(* every committed point is projectable.                                   *)
(***************************************************************************)
C15_CacheHoldsProjectablePoints ==
    ProjectionPassRan
      => /\ Len(viewPoints) = ProjectableCount
         /\ Len(viewPoints) <= Len(points)
         /\ (Len(viewPoints) = Len(points))
              <=> (\A i \in DOMAIN points : Projectable(points[i]))

\* paneViews has just run on an Active tool with two committed points of
\* which the viewport places one
C15_Witness ==
    /\ last.op = "paneViews"
    /\ active
    /\ Len(points) = 2
    /\ Len(viewPoints) = 1

(***************************************************************************)
(* C17: a second update() right after a first, with nothing changed in     *)
(* between, leaves the cached view points and the cached temp view point   *)
(* as the first left them.                                                 *)
(***************************************************************************)
C17_UpdateIdempotent ==
    [][(last.op = "paneViews" /\ last'.op = "paneViews")
         => UNCHANGED <<viewPoints, tempViewPoint>>]_vars

\* paneViews has just rebuilt a cache holding two view points and a temp
\* view point
C17_Witness ==
    /\ last.op = "paneViews"
    /\ active
    /\ Len(viewPoints) = 2
    /\ tempViewPoint # NoViewPoint

(***************************************************************************)
(* C19: applyOptions(partial) sets every style field the partial names to  *)
(* the given value and keeps every other field, changes neither the        *)
(* committed sequence, the temp point, the activation state nor the        *)
(* subscriptions, and requests one repaint when a callback is held.        *)
(***************************************************************************)
C19_ApplyOptionsMerges ==
    [][last'.op = "applyOptions"
         => /\ \A f \in DOMAIN options :
                  options'[f] = IF last'.partial[f] # Absent
                                THEN last'.partial[f] ELSE options[f]
            /\ DOMAIN options' = DOMAIN options
            /\ UNCHANGED <<points, tempPoint, active, clickSubs, moveSubs>>
            /\ last'.calls = IF requestUpdate # NullRef
                             THEN <<Call("requestUpdate", requestUpdate, "")>>
                             ELSE <<>>]_vars

\* applyOptions has just set the color back to the default on an attached
\* tool whose line style an earlier call had made dashed
C19_Witness ==
    /\ last.op = "applyOptions"
    /\ last.partial = [color |-> "#2962FF", lineStyle |-> Absent]
    /\ options = [color |-> "#2962FF", lineStyle |-> "dashed"]
    /\ requestUpdate # NullRef
    /\ points # <<>>

(***************************************************************************)
(* C20: an accepted click appends the point, rebuilds the projection cache *)
(* and only then requests the repaint, so when the repaint is requested    *)
(* the cache already holds the projection of the new point (if it is       *)
(* projectable).                                                           *)
(***************************************************************************)
C20_ClickRebuildsBeforeRepaint ==
    [][(last'.op = "click" /\ points' # points)
         => /\ last'.calls
                 = <<Call("update", "paneView", "")>>
                   \o (IF requestUpdate # NullRef
                       THEN <<Call("requestUpdate", requestUpdate, "")>>
                       ELSE <<>>)
            /\ LET new == points'[Len(points')]
                   x == timeToCoordinate(viewport, new.time)
                   y == priceToCoordinate(viewport, new.price)
               IN  (x # Null /\ y # Null)
                     => /\ viewPoints' # <<>>
                        /\ viewPoints'[Len(viewPoints')] = [x |-> x, y |-> y]
                        /\ Len(viewPoints') = ProjectableCount']_vars

\* an attached tool has just accepted its second click and holds two view
\* points
C20_Witness ==
    /\ last.op = "click"
    /\ Len(last.calls) = 2
    /\ Len(points) = 2
    /\ Len(viewPoints) = 2


(***************************************************************************)
(* Vocabulary of the paint claims.  A paint cycle is paneViews(), then     *)
(* renderer(), then draw() of the renderer returned; the last two write no *)
(* field of the tool, so in a state paneViews() has just left, the paint   *)
(* cycle draws paintDraws.                                                 *)
(***************************************************************************)
paintDraws == draw(rendererData(viewPoints, tempViewPoint, options))

PaintCycle == last.op = "paneViews"

\* the pixel a logical point is projected to under the viewport
PixelOf(p) ==
    [x |-> timeToCoordinate(viewport, p.time),
     y |-> priceToCoordinate(viewport, p.price)]

\* the canvas calls of one filled marker at view point v
MarkerAt(v) ==
    << <<"beginPath", Null, Null>>,
       <<"arc", v.x * horizontalPixelRatio, v.y * verticalPixelRatio>>,
       <<"fill", Null, Null>> >>

(***************************************************************************)
(* C12: with zero committed points a paint cycle draws exactly one filled  *)
(* marker, at the temp point's projection, and no line segment when the    *)
(* temp point is non-null and projectable, and makes no path, stroke or    *)
(* fill call at all when the temp point is null.                           *)
(***************************************************************************)
C12_NoPointsDrawsPreviewOnly ==
    (PaintCycle /\ points = <<>>)
      => /\ (tempPoint # NoLogicalPoint /\ Projectable(tempPoint))
              => paintDraws = MarkerAt(PixelOf(tempPoint))
         /\ tempPoint = NoLogicalPoint => paintDraws = <<>>


\* the view points of the committed points, in commit order
RECURSIVE PixelsOf(_)
PixelsOf(pts) ==
    IF pts = <<>> THEN <<>> ELSE <<PixelOf(Head(pts))>> \o PixelsOf(Tail(pts))

\* the canvas calls of one path through the view points vs, stroked once
PathThrough(vs) ==
    << <<"beginPath", Null, Null>> >>
    \o [i \in 1..Len(vs) |->
          <<IF i = 1 THEN "moveTo" ELSE "lineTo",
            vs[i].x * horizontalPixelRatio, vs[i].y * verticalPixelRatio>>]
    \o << <<"stroke", Null, Null>> >>

\* one marker on each of the view points vs, in order
RECURSIVE MarkersAt(_)
MarkersAt(vs) ==
    IF vs = <<>> THEN <<>> ELSE MarkerAt(Head(vs)) \o MarkersAt(Tail(vs))

\* the calls of kind name among the canvas calls ops
CallsOf(ops, name) == SelectSeq(ops, LAMBDA o : o[1] = name)

(***************************************************************************)
(* C13: in Active state with n >= 1 committed points and a non-null temp   *)
(* point, all projectable, a paint cycle draws one path that starts at the *)
(* first committed point, passes through every committed point in commit   *)
(* order and ends at the temp point (n segments, stroked once), and then   *)
(* exactly n markers, one on each committed point and none on the temp     *)
(* point.                                                                  *)
(***************************************************************************)
C13_PathThenMarkers ==
    (/\ PaintCycle
     /\ active
     /\ points # <<>>
     /\ tempPoint # NoLogicalPoint
     /\ Projectable(tempPoint)
     /\ \A i \in DOMAIN points : Projectable(points[i]))
      => /\ paintDraws
              = PathThrough(PixelsOf(points) \o <<PixelOf(tempPoint)>>)
                \o MarkersAt(PixelsOf(points))
         /\ Len(CallsOf(paintDraws, "lineTo")) = Len(points)
         /\ Len(CallsOf(paintDraws, "stroke")) = 1
         /\ Len(CallsOf(paintDraws, "arc")) = Len(points)

\* a paint cycle on an Active tool with two committed points at different
\* times and a temp point, all projectable
C13_Witness ==
    /\ PaintCycle
    /\ active
    /\ Len(points) = 2
    /\ points[1].time # points[2].time
    /\ tempPoint # NoLogicalPoint
    /\ Projectable(tempPoint)
    /\ \A i \in DOMAIN points : Projectable(points[i])
    /\ Len(CallsOf(paintDraws, "lineTo")) = 2


\* the committed points the viewport places, in commit order
ProjectablePoints == SelectSeq(points, Projectable)

\* the temp point's pixel, if there is a temp point and the viewport places it
TempPixel ==
    IF tempPoint # NoLogicalPoint /\ Projectable(tempPoint)
    THEN <<PixelOf(tempPoint)>> ELSE <<>>

(***************************************************************************)
(* C14: a paint cycle in Active state draws one path through the           *)
(* projectable committed points in commit order (and on to the temp        *)
(* point's pixel, if it has one) and one marker on each of them; a         *)
(* committed point the viewport does not place, at any position, is        *)
(* neither a vertex nor marked, and if no committed point is placed no     *)
(* path is drawn.  The paint cycle leaves the committed sequence as it     *)
(* was, so a point skipped under one viewport is drawn under a later one   *)
(* that places it.                                                         *)
(***************************************************************************)
C14_UnprojectableSkipped ==
    /\ [](PaintCycle /\ active /\ points # <<>>
            => LET vs == PixelsOf(ProjectablePoints)
               IN  /\ vs # <<>>
                        => paintDraws
                             = PathThrough(vs \o TempPixel) \o MarkersAt(vs)
                   /\ vs = <<>>
                        => /\ CallsOf(paintDraws, "moveTo") = <<>>
                           /\ CallsOf(paintDraws, "lineTo") = <<>>
                           /\ CallsOf(paintDraws, "stroke") = <<>>
                           /\ paintDraws \in {<<>>} \cup {MarkerAt(TempPixel[i]) :
                                                         i \in DOMAIN TempPixel})
    /\ [][last'.op = "paneViews" => getPoints' = getPoints]_vars

\* a paint cycle on an Active tool whose first committed point the viewport
\* does not place and whose second it does: one marker is drawn
C14_Witness ==
    /\ PaintCycle
    /\ active
    /\ Len(points) = 2
    /\ ~Projectable(points[1])
    /\ Projectable(points[2])
    /\ Len(CallsOf(paintDraws, "arc")) = 1
    /\ Len(CallsOf(paintDraws, "moveTo")) = 1


(***************************************************************************)
(* C16: a paint cycle whose update() runs while the chart or the series    *)
(* handle is absent renders nothing: no segment, no committed-point marker *)
(* and no preview marker.                                                  *)
(***************************************************************************)
C16_NoHandlesRendersNothing ==
    (PaintCycle /\ (chart = NullRef \/ series = NullRef)) => paintDraws = <<>>


(***************************************************************************)
(* C18: the view points, the temp view point and the style options held by *)
(* a renderer already obtained from renderer() are a snapshot: no later    *)
(* update(), click, move, clearPoints(), applyOptions(), deactivate() or   *)
(* viewport change alters them; only obtaining a renderer anew gives       *)
(* other data.                                                             *)
(***************************************************************************)
C18_RendererPayloadIsSnapshot ==
    [][(renderer.made /\ last'.op # "renderer")
         => /\ renderer'.points = renderer.points
            /\ renderer'.tempPoint = renderer.tempPoint
            /\ renderer'.options = renderer.options
            /\ draw(renderer') = draw(renderer)]_vars

\* a renderer obtained earlier still holds one view point and the default
\* options after a later update() has rebuilt the cache with two view
\* points and applyOptions has changed the color
C18_Witness ==
    /\ renderer.made
    /\ last.op = "paneViews"
    /\ Len(renderer.points) = 1
    /\ Len(viewPoints) = 2
    /\ renderer.options = defaultOptions
    /\ options # defaultOptions


\* the entries of a payload that have both coordinates, in order
NonNullEntries(d) == SelectSeq(d.points, drawable)

\* the temp entry of a payload, if it has both coordinates
NonNullTemp(d) == IF drawable(d.tempPoint) THEN <<d.tempPoint>> ELSE <<>>

ArcsAt(vs) == CallsOf(MarkersAt(vs), "arc")

(***************************************************************************)
(* C22: whenever the committed sequence is non-empty, a paint cycle on the *)
(* Active tool draws its markers on committed points only, never one for   *)
(* the temp point, also when the viewport places no committed point.       *)
(***************************************************************************)
C22_NoMarkerAtTemp ==
    (PaintCycle /\ active /\ points # <<>> /\ tempPoint # NoLogicalPoint)
      => CallsOf(paintDraws, "arc") = ArcsAt(PixelsOf(ProjectablePoints))



\* the operation just run was delivered to an Active tool and carried a
\* pixel point, the time value 0 and a convertible y-coordinate
ZeroTimeNotified(op) ==
    /\ last.op = op
    /\ last.wasActive
    /\ last.param.time = 0
    /\ Convertible(last.param)

(***************************************************************************)
(* C23: a time value of 0 is a time coordinate like any other: a click in  *)
(* Active state with a pixel point, time value 0 and a convertible price   *)
(* leaves {time: 0, price} as the last committed point, and a move with    *)
(* the same content leaves it as the temp point.                           *)
(***************************************************************************)
C23_ZeroTimeIsATime ==
    /\ ZeroTimeNotified("click")
         => /\ points # <<>>
            /\ points[Len(points)] = PairOf(last.param)
    /\ ZeroTimeNotified("move") => tempPoint = PairOf(last.param)


(***************************************************************************)
(* C24: in every reachable state the fields agree with the activation      *)
(* state: when Inactive the temp point, the chart and series handles and   *)
(* the click and move handler references are all null; when Active the     *)
(* chart and series handles and both handler references are all non-null.  *)
(***************************************************************************)
C24_FieldsAgreeWithActivation ==
    /\ ~active
         => /\ tempPoint = NoLogicalPoint
            /\ chart = NullRef
            /\ series = NullRef
            /\ clickHandler = NullRef
            /\ moveHandler = NullRef
    /\ active
         => /\ chart # NullRef
            /\ series # NullRef
            /\ clickHandler # NullRef
            /\ moveHandler # NullRef

\* a move with a pixel point, a time and a convertible price has just been
\* delivered to a tool that was deactivated after committing a point
C24_Witness ==
    /\ last.op = "move"
    /\ ~last.wasActive
    /\ ~active
    /\ Convertible(last.param)
    /\ last.param.time = 100
    /\ points # <<>>


(***************************************************************************)
(* C25: the paint cycle that follows clearPoints(), in any activation      *)
(* state, draws no segment and no marker: the committed sequence and the   *)
(* temp point are empty, so nothing of the cleared polyline is drawn.      *)
(***************************************************************************)
C25_ClearedNeverDrawnAgain ==
    [][(last.op = "clearPoints" /\ last'.op = "paneViews")
         => paintDraws' = <<>>]_vars



=============================================================================
